---- MODULE Spec2Model ----
(***************************************************************************)
(* State-machine model of aio_api_ros/connection.py (ApiRosConnection):    *)
(* the word/sentence encoder, the login handshake, query, read,            *)
(* login_client and close, over asyncio stream transports.                 *)
(*                                                                         *)
(* A str is a sequence of code points and a bytes object a sequence of     *)
(* integers 0..255, so that len(), encode(), decode(), split() and the     *)
(* `in` operator are computed as Python computes them.                     *)
(***************************************************************************)
EXTENDS Integers, Sequences, FiniteSets, TLC

(***************************************************************************)
(* Bounds of the model.                                                    *)
(***************************************************************************)
\* Calls of connect/query/login_client/close made on the session in one run
\* (one more where callers share the session).
MaxCalls == 2
\* Transports asyncio.open_connection can hand out in one run.
MaxConn == 2
\* Reads in one run that return fewer bytes than the router has sent by then.
MaxShortReads == 1
\* The longest word whose length prefix is computed on its own.
MaxLength == 256
\* The most words of a sentence encoded on its own.
MaxWords == 2

(***************************************************************************)
(* Module constants of connection.py, lines 10-13.                         *)
(***************************************************************************)
\* '!trap'
ERROR_TAG == <<33, 116, 114, 97, 112>>
\* '!fatal'
FATAL_ERROR_TAG == <<33, 102, 97, 116, 97, 108>>
DEFAULT_READ_DATA_LEN == 4096
LOGIN_DATA_LEN == 128

(***************************************************************************)
(* String literals of connection.py.                                       *)
(***************************************************************************)
\* b'!done' (read, line 163) and "!done" (query, line 147)
DONE_TAG == <<33, 100, 111, 110, 101>>
\* '=message=' (_get_err_message, line 107)
MESSAGE_SEP == <<61, 109, 101, 115, 115, 97, 103, 101, 61>>
\* "message" (query, line 144)
MESSAGE_KEY == <<109, 101, 115, 115, 97, 103, 101>>
\* "no such command prefix" (query, line 144)
NO_SUCH_COMMAND_PREFIX ==
    <<110, 111, 32, 115, 117, 99, 104, 32, 99, 111, 109, 109, 97, 110, 100,
      32, 112, 114, 101, 102, 105, 120>>
\* 'Connection reset by peer' (login, line 188)
RESET_MESSAGE ==
    <<67, 111, 110, 110, 101, 99, 116, 105, 111, 110, 32, 114, 101, 115,
      101, 116, 32, 98, 121, 32, 112, 101, 101, 114>>
\* 'OK' (login_client, line 213)
OK_MESSAGE == <<79, 75>>

(***************************************************************************)
(* Python built-ins on str and bytes.                                      *)
(***************************************************************************)
Min(a, b) == IF a <= b THEN a ELSE b

\* s[:n]
Take(s, n) == SubSeq(s, 1, Min(n, Len(s)))

\* s[n:]
Drop(s, n) == SubSeq(s, n + 1, Len(s))

\* s.find(p, i), 1-based; 0 when p does not occur at or after i.
Find(s, p, i) ==
    LET hits == {j \in i..(Len(s) - Len(p) + 1) : SubSeq(s, j, j + Len(p) - 1) = p}
    IN IF hits = {} THEN 0 ELSE CHOOSE j \in hits : \A k \in hits : j <= k

\* p in s
Contains(s, p) == Find(s, p, 1) # 0

\* s.split(sep): the list of the pieces between the occurrences of sep.
RECURSIVE Split(_, _)
Split(s, sep) ==
    LET i == Find(s, sep, 1)
    IN IF i = 0 THEN <<s>>
       ELSE <<SubSeq(s, 1, i - 1)>> \o Split(Drop(s, i + Len(sep) - 1), sep)

\* int.bit_length()
RECURSIVE BitLength(_)
BitLength(n) == IF n = 0 THEN 0 ELSE 1 + BitLength(n \div 2)

\* n.to_bytes(length, byteorder='little')
IntToBytesLittle(n, length) == [i \in 1..length |-> (n \div (256 ^ (i - 1))) % 256]

\* The UTF-8 bytes of one code point (code points below 0x10000).
Utf8(cp) ==
    IF cp < 128 THEN <<cp>>
    ELSE IF cp < 2048 THEN <<192 + (cp \div 64), 128 + (cp % 64)>>
    ELSE <<224 + (cp \div 4096), 128 + ((cp \div 64) % 64), 128 + (cp % 64)>>

\* str.encode(): UTF-8, the bytes of the code points in order.
RECURSIVE Encode(_)
Encode(s) ==
    IF Len(s) = 0 THEN <<>>
    ELSE IF Len(s) = 1 THEN Utf8(s[1])
    ELSE LET h == Len(s) \div 2
         IN Encode(SubSeq(s, 1, h)) \o Encode(SubSeq(s, h + 1, Len(s)))

IsCont(b) == b >= 128 /\ b < 192

\* The number of bytes of the well-formed UTF-8 sequence that starts data[i],
\* 0 when there is none (code points below 0x10000).
Utf8Width(data, i) ==
    LET b == data[i]
    IN IF b < 128 THEN 1
       ELSE IF b >= 194 /\ b < 224 /\ i + 1 <= Len(data) /\ IsCont(data[i + 1]) THEN 2
       ELSE IF b >= 224 /\ b < 240 /\ i + 2 <= Len(data)
               /\ IsCont(data[i + 1]) /\ IsCont(data[i + 2])
               /\ (b > 224 \/ data[i + 1] >= 160) THEN 3
       ELSE 0

Utf8CodePoint(data, i, w) ==
    IF w = 1 THEN data[i]
    ELSE IF w = 2 THEN (data[i] - 192) * 64 + (data[i + 1] - 128)
    ELSE (data[i] - 224) * 4096 + (data[i + 1] - 128) * 64 + (data[i + 2] - 128)

\* Whether the decoder starts a sequence at data[i]: the byte is not a
\* continuation byte of the well-formed sequence begun one or two bytes
\* before it.
Utf8Start(data, i) ==
    ~(/\ IsCont(data[i])
      /\ \E j \in {i - 2, i - 1} :
             /\ j >= 1
             /\ ~IsCont(data[j])
             /\ Utf8Width(data, j) > i - j)

Utf8Starts(data) == {i \in 1..Len(data) : Utf8Start(data, i)}

\* Whether bytes.decode() succeeds (it raises UnicodeDecodeError otherwise).
Decodable(data) == \A i \in Utf8Starts(data) : Utf8Width(data, i) > 0

\* bytes.decode('UTF-8', errors): strict callers test Decodable first; with
\* 'replace' every byte that starts no well-formed sequence becomes U+FFFD.
\* Long data is decoded in two halves cut where a sequence starts.
RECURSIVE Decode(_)
Decode(data) ==
    IF Len(data) <= 6
    THEN LET starts == Utf8Starts(data)
             rank == [i \in starts |-> Cardinality({j \in starts : j < i})]
         IN [k \in 1..Cardinality(starts) |->
                 LET i == CHOOSE j \in starts : rank[j] = k - 1
                     w == Utf8Width(data, i)
                 IN IF w = 0 THEN 65533 ELSE Utf8CodePoint(data, i, w)]
    ELSE LET h == Len(data) \div 2
             m == CHOOSE i \in (h + 1)..(h + 3) :
                      /\ Utf8Start(data, i)
                      /\ \A j \in (h + 1)..(i - 1) : ~Utf8Start(data, j)
         IN Decode(SubSeq(data, 1, m - 1)) \o Decode(SubSeq(data, m, Len(data)))

(***************************************************************************)
(* The encoder: _to_bytes, _talk_end, talk_word, talk_sentence.  Each       *)
(* yields the bytes its writer.write calls hand to the transport, in order. *)
(***************************************************************************)
\* _to_bytes(str_value): the length prefix.
to_bytes(str_value) ==
    LET length == (BitLength(Len(str_value)) \div 8) + 1
    IN IntToBytesLittle(Len(str_value), length)

\* _talk_end(): the prefix of '' and then ''.encode().
talk_end == to_bytes(<<>>) \o Encode(<<>>)

talk_word(str_value, send_end) ==
    to_bytes(str_value) \o Encode(str_value)
        \o (IF send_end THEN talk_end ELSE <<>>)

RECURSIVE talk_words(_)
talk_words(sentence) ==
    IF sentence = <<>> THEN <<>>
    ELSE talk_word(Head(sentence), FALSE) \o talk_words(Tail(sentence))

talk_sentence(sentence) == talk_words(sentence) \o talk_end

(***************************************************************************)
(* dict: a Python dict is a sequence of <<key, value>> pairs with distinct  *)
(* keys, in insertion order.                                                *)
(***************************************************************************)
DictHas(d, k) == \E i \in 1..Len(d) : d[i][1] = k

\* d[k] for a key that is present.
DictGet(d, k) == d[CHOOSE i \in 1..Len(d) : d[i][1] = k][2]

\* d[k] = v
DictSet(d, k, v) ==
    IF DictHas(d, k)
    THEN [i \in 1..Len(d) |-> IF d[i][1] = k THEN <<k, v>> ELSE d[i]]
    ELSE Append(d, <<k, v>>)

(***************************************************************************)
(* SentenceUnpacker and parse_sentence (aio_api_ros/unpacker.py and         *)
(* parser.py), imported at lines 7-8.                                       *)
(***************************************************************************)
\* The number of bytes of the length prefix that starts with byte b, 0 for a
\* malformed first byte.
LengthWidth(b) ==
    IF b < 128 THEN 1
    ELSE IF b < 192 THEN 2
    ELSE IF b < 224 THEN 3
    ELSE IF b < 240 THEN 4
    ELSE IF b = 240 THEN 5
    ELSE 0

\* The value of the length prefix of width w at data[i].
DecodeLength(data, i, w) ==
    IF w = 1 THEN data[i]
    ELSE IF w = 2 THEN (data[i] - 128) * 256 + data[i + 1]
    ELSE IF w = 3 THEN (data[i] - 192) * 65536 + data[i + 1] * 256 + data[i + 2]
    ELSE IF w = 4 THEN (data[i] - 224) * 16777216 + data[i + 1] * 65536
                       + data[i + 2] * 256 + data[i + 3]
    ELSE data[i + 1] * 16777216 + data[i + 2] * 65536 + data[i + 3] * 256
         + data[i + 4]

\* The sentences the unpacker yields for the bytes fed to it, from offset i
\* with `words` accumulated since the last sentence boundary: a sentence is
\* yielded at each zero-length word; bytes that end inside a prefix or a
\* word stay buffered and yield nothing; a malformed prefix is a
\* FramingError (ferr) after the sentences before it.
RECURSIVE UnpackFrom(_, _, _)
UnpackFrom(data, i, words) ==
    IF i > Len(data) THEN [sentences |-> <<>>, ferr |-> FALSE]
    ELSE LET w == LengthWidth(data[i])
         IN IF w = 0 THEN [sentences |-> <<>>, ferr |-> TRUE]
            ELSE IF i + w - 1 > Len(data) THEN [sentences |-> <<>>, ferr |-> FALSE]
            ELSE LET n == DecodeLength(data, i, w)
                 IN IF n = 0
                    THEN LET rest == UnpackFrom(data, i + w, <<>>)
                         IN [sentences |-> <<words>> \o rest.sentences,
                             ferr |-> rest.ferr]
                    ELSE IF i + w + n - 1 > Len(data)
                    THEN [sentences |-> <<>>, ferr |-> FALSE]
                    ELSE UnpackFrom(data, i + w + n,
                             Append(words, Decode(SubSeq(data, i + w, i + w + n - 1))))

\* unpacker.feed(data); list(unpacker)
Unpack(data) == UnpackFrom(data, 1, <<>>)

\* The record of the attribute words: '=key=value' words are added with key
\* up to the first '=' after the leading one; other words are ignored.
RECURSIVE ParseAttrs(_, _)
ParseAttrs(words, d) ==
    IF words = <<>> THEN d
    ELSE LET w == Head(words)
             eq == IF w # <<>> /\ w[1] = 61 THEN Find(w, <<61>>, 2) ELSE 0
         IN IF eq = 0 THEN ParseAttrs(Tail(words), d)
            ELSE ParseAttrs(Tail(words),
                     DictSet(d, SubSeq(w, 2, eq - 1), Drop(w, eq)))

\* parse_sentence(sentence): the tag and the record (the middle element of
\* the triple is discarded by query).
parse_sentence(sentence) ==
    [resp |-> IF sentence = <<>> THEN <<>> ELSE Head(sentence),
     obj |-> IF sentence = <<>> THEN <<>> ELSE ParseAttrs(Tail(sentence), <<>>)]

(***************************************************************************)
(* The router's side of the wire (spec section 6): words shorter than 0x80 *)
(* bytes carry a one-byte length, a sentence ends with a zero byte.         *)
(***************************************************************************)
RECURSIVE WireSentence(_)
WireSentence(words) ==
    IF words = <<>> THEN <<0>>
    ELSE <<Len(Encode(Head(words)))>> \o Encode(Head(words)) \o WireSentence(Tail(words))

RECURSIVE WireReply(_)
WireReply(sentences) ==
    IF sentences = <<>> THEN <<>>
    ELSE WireSentence(Head(sentences)) \o WireReply(Tail(sentences))

\* '!re'
RE_TAG == <<33, 114, 101>>
\* '=id=1', '=id=2'
AttrId1 == <<61, 105, 100, 61, 49>>
AttrId2 == <<61, 105, 100, 61, 50>>
\* '=c=!done': a value that holds the text of the done tag
AttrCommentDone == <<61, 99, 61, 33, 100, 111, 110, 101>>
\* '=message=no': a message that is a proper prefix of the sentinel
AttrMsgNo == MESSAGE_SEP \o <<110, 111>>
\* '=message=no such command prefix'
AttrMsgNoPrefix == MESSAGE_SEP \o NO_SUCH_COMMAND_PREFIX
\* '=message=bad'
AttrMsgBad == MESSAGE_SEP \o <<98, 97, 100>>
\* '=ret=x'
AttrRet == <<61, 114, 101, 116, 61, 120>>

\* The reply streams the router may send to a command other than /login;
\* after a !fatal it closes the connection.
QueryReplies ==
    { [sentences |-> <<<<DONE_TAG>>>>, close |-> FALSE],
      [sentences |-> <<<<RE_TAG, AttrId1>>, <<RE_TAG, AttrId2>>, <<DONE_TAG>>>>,
       close |-> FALSE],
      [sentences |-> <<<<RE_TAG, AttrCommentDone>>, <<RE_TAG, AttrId2>>, <<DONE_TAG>>>>,
       close |-> FALSE],
      [sentences |-> <<<<RE_TAG, AttrId1>>, <<DONE_TAG, AttrRet>>>>, close |-> FALSE],
      [sentences |-> <<<<ERROR_TAG, AttrMsgNo>>, <<DONE_TAG>>>>, close |-> FALSE],
      [sentences |-> <<<<ERROR_TAG, AttrMsgNoPrefix>>, <<DONE_TAG>>>>, close |-> FALSE],
      [sentences |-> <<<<FATAL_ERROR_TAG, AttrMsgBad>>>>, close |-> TRUE] }

\* Reply streams that end with !trap or !fatal alone (spec section 3), the
\* connection staying open.
BareReplies ==
    { [sentences |-> <<<<ERROR_TAG, AttrMsgNo>>>>, close |-> FALSE],
      [sentences |-> <<<<RE_TAG, AttrId1>>, <<FATAL_ERROR_TAG, AttrMsgBad>>>>,
       close |-> FALSE] }

\* The reply streams the router may send to /login.
LoginReplies ==
    { [sentences |-> <<<<DONE_TAG>>>>, close |-> FALSE],
      [sentences |-> <<<<ERROR_TAG, AttrMsgNo>>, <<DONE_TAG>>>>, close |-> FALSE],
      [sentences |-> <<<<FATAL_ERROR_TAG, AttrMsgBad>>>>, close |-> TRUE] }

(***************************************************************************)
(* The session's constructor arguments and the callers' arguments.          *)
(***************************************************************************)
\* mk_user = 'admin', mk_psw = 'pw'
User == <<97, 100, 109, 105, 110>>
Password == <<112, 119>>
\* query path '/ip'
Paths == {<<47, 105, 112>>}
\* client_ip = '1.1', client_login = 'u', client_psw = 'p'
ClientIp == <<49, 46, 49>>
ClientLogin == <<117>>
ClientPsw == <<112>>

\* _get_login_sentence()
get_login_sentence ==
    << <<47, 108, 111, 103, 105, 110>>,
       <<61, 110, 97, 109, 101, 61>> \o User,
       <<61, 112, 97, 115, 115, 119, 111, 114, 100, 61>> \o Password >>

\* The sentence login_client builds.
login_client_sentence ==
    << <<47, 105, 112, 47, 104, 111, 116, 115, 112, 111, 116, 47, 97, 99, 116,
         105, 118, 101, 47, 108, 111, 103, 105, 110>>,
       <<61, 105, 112, 61>> \o ClientIp,
       <<61, 117, 115, 101, 114, 61>> \o ClientLogin,
       <<61, 112, 97, 115, 115, 119, 111, 114, 100, 61>> \o ClientPsw >>

(***************************************************************************)
(* What a call returns or raises.                                           *)
(***************************************************************************)
NoRet == [kind |-> "none", code |-> 0, msg |-> <<>>, path |-> <<>>, obj |-> <<>>]
Returns == [NoRet EXCEPT !.kind = "ok"]
Raises(kind, msg) == [NoRet EXCEPT !.kind = kind, !.msg = msg]

\* _get_err_message(data): data.decode().split('=message=')[1].split('\x00')[0]
get_err_message(data) ==
    IF ~Decodable(data) THEN Raises("UnicodeDecodeError", <<>>)
    ELSE LET parts == Split(Decode(data), MESSAGE_SEP)
         IN IF Len(parts) < 2 THEN Raises("IndexError", <<>>)
            ELSE [Returns EXCEPT !.msg = Split(parts[2], <<0>>)[1]]

\* _get_result_dict(code, message)
get_result_dict(code, message) == [Returns EXCEPT !.code = code, !.msg = message]

\* login(), from the chunk reader.read(LOGIN_DATA_LEN) returned.
login_result(data) ==
    IF ~Decodable(data) THEN Raises("UnicodeDecodeError", <<>>)
    ELSE IF Contains(Decode(data), ERROR_TAG) \/ Contains(Decode(data), FATAL_ERROR_TAG)
    THEN LET m == get_err_message(data)
         IN IF m.kind = "ok" THEN Raises("LoginFailed", m.msg) ELSE m
    ELSE Returns

\* login_client(), from the bytes read() returned.
login_client_result(data) ==
    IF ~Decodable(data) THEN Raises("UnicodeDecodeError", <<>>)
    ELSE IF Contains(Decode(data), ERROR_TAG)
    THEN LET m == get_err_message(data)
         IN IF m.kind = "ok" THEN get_result_dict(-1, m.msg) ELSE m
    ELSE get_result_dict(0, OK_MESSAGE)

\* query's test written with `in` for `==`: any message that occurs in the
\* sentinel text suppresses the trap.
trap_suppressed_in(optional, obj) ==
    optional /\ Contains(NO_SUCH_COMMAND_PREFIX, DictGet(obj, MESSAGE_KEY))

\* query's test without the `optional and`: no trap is ever suppressed.
trap_suppressed_never(optional, obj) == FALSE

\* Whether query's trap branch returns silently.
trap_suppressed(optional, obj) ==
    optional /\ DictGet(obj, MESSAGE_KEY) = NO_SUCH_COMMAND_PREFIX

\* query's loop without its test for !done: the sentence is yielded like a
\* !re sentence.
query_step_done_yielded(path, optional, sentence) ==
    LET p == parse_sentence(sentence)
    IN IF p.resp = ERROR_TAG
       THEN IF optional /\ ~DictHas(p.obj, MESSAGE_KEY)
            THEN [act |-> "raise", ret |-> Raises("KeyError", MESSAGE_KEY), obj |-> p.obj]
            ELSE IF trap_suppressed(optional, p.obj)
            THEN [act |-> "return", ret |-> Returns, obj |-> p.obj]
            ELSE [act |-> "raise",
                  ret |-> [Raises("Exception", <<>>) EXCEPT !.path = path, !.obj = p.obj],
                  obj |-> p.obj]
       ELSE [act |-> "yield", ret |-> NoRet, obj |-> p.obj]

\* One round of query's for loop on a decoded sentence: what the generator
\* does ("yield", "break", "return" or "raise") and with what.
query_step(path, optional, sentence) ==
    LET p == parse_sentence(sentence)
    IN IF p.resp = ERROR_TAG
       THEN IF optional /\ ~DictHas(p.obj, MESSAGE_KEY)
            THEN [act |-> "raise", ret |-> Raises("KeyError", MESSAGE_KEY), obj |-> p.obj]
            ELSE IF trap_suppressed(optional, p.obj)
            THEN [act |-> "return", ret |-> Returns, obj |-> p.obj]
            ELSE [act |-> "raise",
                  ret |-> [Raises("Exception", <<>>) EXCEPT !.path = path, !.obj = p.obj],
                  obj |-> p.obj]
       ELSE IF p.resp = DONE_TAG
       THEN [act |-> "break", ret |-> Returns, obj |-> p.obj]
       ELSE [act |-> "yield", ret |-> NoRet, obj |-> p.obj]

(***************************************************************************)
(* State.                                                                   *)
(***************************************************************************)
VARIABLES
    reader,     \* self.reader: Unset, or the transport it reads
    writer,     \* self.writer: Unset, or the transport it writes
    used,       \* self.used
    state,      \* the session state of spec section 3
    tr,         \* the transports: both directions of each connection
    nconn,      \* transports opened so far
    task,       \* the calls made on the session, one coroutine each
    calls,      \* calls made so far
    finalized,  \* "no", or how close() ended when __del__ ran
    callers,    \* coroutines that share the session, each awaiting its calls
    budget,     \* calls the callers make in this run
    shortreads, \* reads so far that returned part of the bytes in flight
    bare,       \* whether the router also ends a reply with !trap or !fatal alone
    probe       \* a call of the encoder on its own: its argument and its bytes

vars == <<reader, writer, used, state, tr, nconn, task, calls, finalized,
          callers, budget, shortreads, bare, probe>>

Calls == 1..(MaxCalls + 1)
Conns == 1..MaxConn

\* __init__ sets neither self.reader nor self.writer.
Unset == 0

\* A transport: `out` holds the command sentences written and not yet
\* answered by the router (each with the call that wrote it), `wire` the
\* reply bytes sent by the router and not yet returned by reader.read.
FreshTransport ==
    [closed |-> FALSE, eof |-> FALSE, reset |-> FALSE, out |-> <<>>, wire |-> <<>>]

\* A call: pc is "idle" before it is made, "login_read" or "read" while it
\* awaits reader.read, "iter" while its generator is being iterated, "done"
\* once it has returned or raised (ret).  `rd` is the reader the pending
\* read was called on.  `clean` and `reply` record, for the claims, whether
\* the transport was open with nothing outstanding when the call wrote its
\* command, and the reply stream the router sent to that command.
IdleTask ==
    [pc |-> "idle", op |-> "none", path |-> <<>>, optional |-> FALSE, rd |-> Unset,
     res |-> <<>>, sentences |-> <<>>, ferr |-> FALSE, idx |-> 0, yielded |-> <<>>,
     ret |-> NoRet, clean |-> FALSE, reply |-> <<>>, answered |-> FALSE]

\* No call of the encoder on its own.
NoProbe == [op |-> "none", arg |-> <<>>, out |-> <<>>, done |-> FALSE]

Init ==
    /\ reader = Unset
    /\ writer = Unset
    /\ used = FALSE
    /\ state = "Disconnected"
    /\ tr = [t \in Conns |-> FreshTransport]
    /\ nconn = 0
    /\ task = [q \in Calls |-> IdleTask]
    /\ calls = 0
    /\ finalized = "no"
    /\ callers = 1
    /\ budget = MaxCalls
    /\ shortreads = 0
    /\ bare = FALSE
    /\ probe = NoProbe

\* The same session, shared by two callers, on a network that delivers each
\* read all the bytes the router has sent.
InitShared ==
    /\ reader = Unset
    /\ writer = Unset
    /\ used = FALSE
    /\ state = "Disconnected"
    /\ tr = [t \in Conns |-> FreshTransport]
    /\ nconn = 0
    /\ task = [q \in Calls |-> IdleTask]
    /\ calls = 0
    /\ finalized = "no"
    /\ callers = 2
    /\ budget = MaxCalls + 1
    /\ shortreads = MaxShortReads
    /\ bare = FALSE
    /\ probe = NoProbe

Running(q) == task[q].pc \in {"login_read", "read", "iter"}

\* Call q is the next one made on the session.
NextCall(q) ==
    /\ q = calls + 1
    /\ q <= budget
    /\ task[q].pc = "idle"
    /\ finalized = "no"
    /\ Cardinality({p \in Calls : Running(p)}) < callers

\* The caller of a call that has ended keeps its result until the next call
\* is made; what earlier calls returned is not part of the session.
Forget(tk) ==
    [p \in Calls |-> IF tk[p].pc = "done" THEN [IdleTask EXCEPT !.pc = "done"] ELSE tk[p]]

\* The lengths reader.read(n) may return when `avail` bytes are in flight.
ReadLengths(n, avail) ==
    {k \in 1..Min(n, avail) : k = avail \/ shortreads < MaxShortReads}

\* Whether a reply is outstanding on transport t.
Outstanding(t) == tr[t].out # <<>> \/ tr[t].wire # <<>>

\* writer.write(data) by call q: a transport that is closed or reset drops
\* the data, and a peer that has closed its end never reads it.
WriterWrite(t, q, data) ==
    IF tr[t].closed \/ tr[t].reset \/ tr[t].eof THEN tr
    ELSE [tr EXCEPT ![t].out = Append(@, [by |-> q, bytes |-> data])]

\* transport.close(): what was written and not yet answered stays unanswered.
WriterClose(t) == [tr EXCEPT ![t].closed = TRUE, ![t].out = <<>>]

Finish(q, r) == [task EXCEPT ![q].pc = "done", ![q].ret = r]

\* The calls when call q is made: it starts as record `rec`.
Start(q, rec) == [Forget(task) EXCEPT ![q] = rec]

(***************************************************************************)
(* connect and login.                                                       *)
(***************************************************************************)
\* connect(): open_connection succeeds, self.reader and self.writer are
\* assigned, login() writes its sentence and awaits reader.read.
Connect(q) ==
    /\ NextCall(q)
    /\ nconn < MaxConn
    /\ LET t == nconn + 1
       IN /\ nconn' = t
          /\ reader' = t
          /\ writer' = t
          /\ tr' = WriterWrite(t, q, talk_sentence(get_login_sentence))
          /\ task' = Start(q, [IdleTask EXCEPT !.pc = "login_read", !.op = "connect",
                                                !.rd = t, !.clean = TRUE])
    /\ state' = "Connected"
    /\ calls' = calls + 1
    /\ UNCHANGED <<used, finalized, callers, budget, bare, probe, shortreads>>

\* connect(): open_connection raises (the router refuses the connection).
ConnectRefused(q) ==
    /\ NextCall(q)
    /\ task' = Start(q, [IdleTask EXCEPT !.pc = "done", !.op = "connect",
                                          !.ret = Raises("ConnectionRefusedError", <<>>)])
    /\ calls' = calls + 1
    /\ UNCHANGED <<reader, writer, used, state, tr, nconn, finalized, callers, budget, bare, probe, shortreads>>

\* What login() makes of the outcome of reader.read: ConnectionResetError
\* becomes LoginFailed.
login_outcome(raised, data) ==
    IF raised THEN Raises("LoginFailed", RESET_MESSAGE) ELSE login_result(data)

\* login(): reader.read(LOGIN_DATA_LEN) completes with the bytes that have
\* arrived (k of them), with b'' at end of stream, or raises on a reset.
LoginRead(q) ==
    /\ task[q].pc = "login_read"
    /\ LET t == task[q].rd
       IN \/ /\ tr[t].reset
             /\ task' = Finish(q, login_outcome(TRUE, <<>>))
             /\ UNCHANGED <<tr, state, shortreads>>
          \/ /\ ~tr[t].reset
             /\ tr[t].wire = <<>>
             /\ tr[t].eof \/ tr[t].closed
             /\ task' = Finish(q, login_outcome(FALSE, <<>>))
             /\ state' = IF login_outcome(FALSE, <<>>).kind = "ok"
                         THEN "Authenticated" ELSE state
             /\ UNCHANGED <<tr, shortreads>>
          \/ /\ ~tr[t].reset
             /\ \E k \in ReadLengths(LOGIN_DATA_LEN, Len(tr[t].wire)) :
                  LET data == Take(tr[t].wire, k)
                  IN /\ tr' = [tr EXCEPT ![t].wire = Drop(@, k)]
                     /\ shortreads' = IF k < Len(tr[t].wire) THEN shortreads + 1
                                      ELSE shortreads
                     /\ task' = [Finish(q, login_outcome(FALSE, data)) EXCEPT ![q].res = data]
                     /\ state' = IF login_outcome(FALSE, data).kind = "ok"
                                 THEN "Authenticated" ELSE state
    /\ UNCHANGED <<reader, writer, used, nconn, calls, finalized, callers, budget, bare, probe>>

(***************************************************************************)
(* close and __del__.                                                       *)
(***************************************************************************)
\* close(): self.writer.close(), AttributeError when self.writer is not set.
close_result == IF writer = Unset THEN Raises("AttributeError", <<>>) ELSE Returns

Close(q) ==
    /\ NextCall(q)
    /\ task' = Start(q, [IdleTask EXCEPT !.pc = "done", !.op = "close", !.ret = close_result])
    /\ tr' = IF writer = Unset THEN tr ELSE WriterClose(writer)
    /\ state' = IF writer = Unset THEN state ELSE "Disconnected"
    /\ calls' = calls + 1
    /\ UNCHANGED <<reader, writer, used, nconn, finalized, callers, budget, bare, probe, shortreads>>

\* __del__(): the session is collected once no coroutine refers to it any
\* more, and calls close().
Del ==
    /\ finalized = "no"
    /\ \A q \in Calls : ~Running(q)
    /\ finalized' = close_result.kind
    /\ tr' = IF writer = Unset THEN tr ELSE WriterClose(writer)
    /\ state' = IF writer = Unset THEN state ELSE "Disconnected"
    /\ UNCHANGED <<reader, writer, used, nconn, task, calls, callers, budget, bare, probe, shortreads>>

(***************************************************************************)
(* query, login_client and read.                                            *)
(***************************************************************************)
\* The first step of a call that sends `sentence` and then awaits read():
\* talk_sentence raises AttributeError when self.writer is not set.
Send(q, op, sentence, path, optional) ==
    /\ NextCall(q)
    /\ calls' = calls + 1
    /\ IF writer = Unset
       THEN /\ task' = Start(q, [IdleTask EXCEPT
                            !.pc = "done", !.op = op, !.path = path,
                            !.optional = optional, !.ret = Raises("AttributeError", <<>>)])
            /\ tr' = tr
       ELSE /\ tr' = WriterWrite(writer, q, talk_sentence(sentence))
            /\ task' = Start(q, [IdleTask EXCEPT
                            !.pc = "read", !.op = op, !.path = path,
                            !.optional = optional, !.rd = reader,
                            !.clean = /\ ~Outstanding(writer)
                                      /\ ~tr[writer].closed
                                      /\ ~tr[writer].eof
                                      /\ ~tr[writer].reset])
    /\ UNCHANGED <<reader, writer, used, state, nconn, finalized, callers, budget, bare, probe, shortreads>>

\* query(path, optional=...): talk_sentence((path,) + args), with no args.
Query(q) ==
    \E path \in Paths, optional \in BOOLEAN : Send(q, "query", <<path>>, path, optional)

\* login_client(client_ip, client_login, client_psw)
LoginClient(q) == Send(q, "login_client", login_client_sentence, <<>>, FALSE)

\* Whether read() leaves its loop on the chunk `data`.
read_stops(data) == data = <<>> \/ Contains(data, DONE_TAG)

\* The call after read() has returned res: query feeds the unpacker and
\* starts its loop, login_client returns its result dict.
AfterRead(q, res) ==
    IF task[q].op = "query"
    THEN LET unpacked == Unpack(res)
         IN [task EXCEPT ![q] = [@ EXCEPT !.pc = "iter", !.res = res,
                                          !.sentences = unpacked.sentences,
                                          !.ferr = unpacked.ferr, !.idx = 1]]
    ELSE [Finish(q, login_client_result(res)) EXCEPT ![q].res = res]

\* One round of read()'s loop: reader.read(length) completes with the bytes
\* that have arrived (k of them), with b'' at end of stream, or raises on a
\* reset; the next round calls self.reader.read again.
Read(q) ==
    /\ task[q].pc = "read"
    /\ LET t == task[q].rd
       IN \/ /\ tr[t].reset
             /\ task' = Finish(q, Raises("ConnectionResetError", <<>>))
             /\ UNCHANGED <<tr, shortreads>>
          \/ /\ ~tr[t].reset
             /\ tr[t].wire = <<>>
             /\ tr[t].eof \/ tr[t].closed
             /\ task' = AfterRead(q, task[q].res)
             /\ UNCHANGED <<tr, shortreads>>
          \/ /\ ~tr[t].reset
             /\ \E k \in ReadLengths(DEFAULT_READ_DATA_LEN, Len(tr[t].wire)) :
                  LET data == Take(tr[t].wire, k)
                      res == task[q].res \o data
                  IN /\ tr' = [tr EXCEPT ![t].wire = Drop(@, k)]
                     /\ shortreads' = IF k < Len(tr[t].wire) THEN shortreads + 1
                                      ELSE shortreads
                     /\ task' = IF read_stops(data) THEN AfterRead(q, res)
                                ELSE [task EXCEPT ![q].res = res, ![q].rd = reader]
    /\ UNCHANGED <<reader, writer, used, state, nconn, calls, finalized, callers, budget, bare, probe>>

\* The caller asks the generator for its next item: one round of query's
\* for loop, or its end when the unpacker has no further sentence.
Iterate(q) ==
    /\ task[q].pc = "iter"
    /\ IF task[q].idx > Len(task[q].sentences)
       THEN task' = Finish(q, IF task[q].ferr THEN Raises("FramingError", <<>>) ELSE Returns)
       ELSE LET s == query_step(task[q].path, task[q].optional,
                                task[q].sentences[task[q].idx])
            IN IF s.act = "yield"
               THEN task' = [task EXCEPT ![q].yielded = Append(@, s.obj),
                                         ![q].idx = @ + 1]
               ELSE task' = Finish(q, s.ret)
    /\ UNCHANGED <<reader, writer, used, state, tr, nconn, calls, finalized,
                   callers, budget, bare, probe, shortreads>>

(***************************************************************************)
(* The router and the network.                                              *)
(***************************************************************************)
\* Whether the command sentence starts with the word /login.
IsLogin(bytes) == Take(bytes, 7) = <<6, 47, 108, 111, 103, 105, 110>>

\* The bytes of each reply on the wire.
ReplyWire ==
    [r \in LoginReplies \cup QueryReplies \cup BareReplies |-> WireReply(r.sentences)]

\* The router answers the oldest command it has received.
RouterReply(t) ==
    /\ t <= nconn
    /\ tr[t].out # <<>>
    /\ ~tr[t].closed /\ ~tr[t].eof /\ ~tr[t].reset
    /\ LET cmd == Head(tr[t].out)
       IN \E r \in (IF IsLogin(cmd.bytes) THEN LoginReplies
                    ELSE IF bare THEN QueryReplies \cup BareReplies
                    ELSE QueryReplies) :
            /\ tr' = [tr EXCEPT
                                ![t].wire = @ \o ReplyWire[r],
                                ![t].eof = r.close,
                                ![t].out = IF r.close THEN <<>> ELSE Tail(tr[t].out)]
            /\ task' = [task EXCEPT ![cmd.by].reply = r.sentences,
                                    ![cmd.by].answered = TRUE]
    /\ UNCHANGED <<reader, writer, used, state, nconn, calls, finalized,
                   callers, budget, bare, probe, shortreads>>

\* Whether some call awaits reader.read on transport t with no byte in
\* flight: the moment at which the end of the connection is observed.
Awaited(t) ==
    /\ tr[t].wire = <<>>
    /\ \E q \in Calls : task[q].pc \in {"login_read", "read"} /\ task[q].rd = t

\* The peer closes the connection while a read is pending: end of stream
\* after the bytes in flight.
PeerClose(t) ==
    /\ t <= nconn
    /\ Awaited(t)
    /\ ~tr[t].closed /\ ~tr[t].eof /\ ~tr[t].reset
    /\ tr' = [tr EXCEPT ![t].eof = TRUE, ![t].out = <<>>]
    /\ UNCHANGED <<reader, writer, used, state, nconn, task, calls, finalized,
                   callers, budget, bare, probe, shortreads>>

\* The peer resets the connection while a read is pending.
PeerReset(t) ==
    /\ t <= nconn
    /\ Awaited(t)
    /\ ~tr[t].closed /\ ~tr[t].reset
    /\ tr' = [tr EXCEPT ![t].reset = TRUE, ![t].out = <<>>]
    /\ UNCHANGED <<reader, writer, used, state, nconn, task, calls, finalized,
                   callers, budget, bare, probe, shortreads>>

(***************************************************************************)
(* Specifications.                                                          *)
(***************************************************************************)
Next ==
    \/ \E q \in Calls : Connect(q)
    \/ \E q \in Calls : ConnectRefused(q)
    \/ \E q \in Calls : LoginRead(q)
    \/ \E q \in Calls : Close(q)
    \/ Del
    \/ \E q \in Calls : Query(q)
    \/ \E q \in Calls : LoginClient(q)
    \/ \E q \in Calls : Read(q)
    \/ \E q \in Calls : Iterate(q)
    \/ \E t \in Conns : RouterReply(t)
    \/ \E t \in Conns : PeerClose(t)
    \/ \E t \in Conns : PeerReset(t)

\* One caller: a call is made only when the one before it has returned or
\* raised.
Spec == Init /\ [][Next]_vars

\* Two callers: any interleaving of their coroutines.
SpecShared == InitShared /\ [][Next]_vars

\* One caller that makes a further call, on a network that may cut one read
\* short.
InitSequel ==
    /\ reader = Unset
    /\ writer = Unset
    /\ used = FALSE
    /\ state = "Disconnected"
    /\ tr = [t \in Conns |-> FreshTransport]
    /\ nconn = 0
    /\ task = [q \in Calls |-> IdleTask]
    /\ calls = 0
    /\ finalized = "no"
    /\ callers = 1
    /\ budget = MaxCalls + 1
    /\ shortreads = 0
    /\ bare = FALSE
    /\ probe = NoProbe

SpecSequel == InitSequel /\ [][Next]_vars

\* One caller, a network that delivers each read all the bytes the router
\* has sent, and a router that may end a reply with !trap or !fatal alone.
InitBare ==
    /\ reader = Unset
    /\ writer = Unset
    /\ used = FALSE
    /\ state = "Disconnected"
    /\ tr = [t \in Conns |-> FreshTransport]
    /\ nconn = 0
    /\ task = [q \in Calls |-> IdleTask]
    /\ calls = 0
    /\ finalized = "no"
    /\ callers = 1
    /\ budget = MaxCalls
    /\ shortreads = MaxShortReads
    /\ bare = TRUE
    /\ probe = NoProbe

SpecBare == InitBare /\ [][Next]_vars

(***************************************************************************)
(* The encoder on its own: _to_bytes, talk_word and talk_sentence applied   *)
(* to arguments drawn from small sets, the bytes they hand to writer.write  *)
(* recorded in probe.out.                                                   *)
(***************************************************************************)
\* The str of n characters 'a'.
Repeat(n) == [i \in 1..n |-> 97]

\* '', '/ip', 'e' with acute accent (U+00E9), the euro sign (U+20AC)
ProbeWords == {<<>>, <<47, 105, 112>>, <<233>>, <<8364>>}

ProbeSentences == UNION {[1..k -> ProbeWords] : k \in 0..MaxWords}

InitEncode ==
    /\ reader = Unset
    /\ writer = Unset
    /\ used = FALSE
    /\ state = "Disconnected"
    /\ tr = [t \in Conns |-> FreshTransport]
    /\ nconn = 0
    /\ task = [q \in Calls |-> IdleTask]
    /\ calls = 0
    /\ finalized = "no"
    /\ callers = 1
    /\ budget = MaxCalls
    /\ shortreads = 0
    /\ bare = FALSE
    /\ probe \in {[NoProbe EXCEPT !.op = "to_bytes", !.arg = Repeat(n)] : n \in 0..MaxLength}
                 \cup {[NoProbe EXCEPT !.op = "talk_word", !.arg = w] : w \in ProbeWords}
                 \cup {[NoProbe EXCEPT !.op = "talk_sentence", !.arg = ws] :
                          ws \in ProbeSentences}

\* _to_bytes(str_value)
ToBytes ==
    /\ probe.op = "to_bytes" /\ ~probe.done
    /\ probe' = [probe EXCEPT !.out = to_bytes(probe.arg), !.done = TRUE]
    /\ UNCHANGED <<reader, writer, used, state, tr, nconn, task, calls, finalized,
                   callers, budget, shortreads, bare>>

\* talk_word(str_value, send_end)
TalkWord ==
    /\ probe.op = "talk_word" /\ ~probe.done
    /\ \E send_end \in BOOLEAN :
          probe' = [probe EXCEPT !.out = talk_word(probe.arg, send_end), !.done = TRUE]
    /\ UNCHANGED <<reader, writer, used, state, tr, nconn, task, calls, finalized,
                   callers, budget, shortreads, bare>>

\* talk_sentence(sentence)
TalkSentence ==
    /\ probe.op = "talk_sentence" /\ ~probe.done
    /\ probe' = [probe EXCEPT !.out = talk_sentence(probe.arg), !.done = TRUE]
    /\ UNCHANGED <<reader, writer, used, state, tr, nconn, task, calls, finalized,
                   callers, budget, shortreads, bare>>

NextEncode == ToBytes \/ TalkWord \/ TalkSentence

SpecEncode == InitEncode /\ [][NextEncode]_vars

(***************************************************************************)
(* Claims.                                                                  *)
(***************************************************************************)
Tag(sentence) == IF sentence = <<>> THEN <<>> ELSE Head(sentence)

\* The sentence on which query q's loop stands (the one that ended it, once
\* the call is done), if any.
AtSentence(q) == task[q].op = "query" /\ task[q].idx \in 1..Len(task[q].sentences)

Current(q) == task[q].sentences[task[q].idx]

\* Whether the trap sentence is the one the optional flag is for.
IsSentinelTrap(sentence) ==
    LET obj == parse_sentence(sentence).obj
    IN /\ Tag(sentence) = ERROR_TAG
       /\ DictHas(obj, MESSAGE_KEY)
       /\ DictGet(obj, MESSAGE_KEY) = NO_SUCH_COMMAND_PREFIX

\* Whether the reply stream is k >= 0 !re sentences and then one !done.
ReThenDone(reply) ==
    /\ reply # <<>>
    /\ reply[Len(reply)] = <<DONE_TAG>>
    /\ \A i \in 1..(Len(reply) - 1) : Tag(reply[i]) = RE_TAG

\* The records of all the sentences of a reply stream but the last.
RecordsBeforeLast(reply) ==
    [i \in 1..(Len(reply) - 1) |-> parse_sentence(reply[i]).obj]

\* Query q has ended, it was the only command outstanding on its transport,
\* and the router answered it on a connection that was not reset.
EndedOwnReply(q) ==
    /\ task[q].op = "query"
    /\ task[q].pc = "done"
    /\ task[q].clean
    /\ task[q].answered
    /\ ~tr[task[q].rd].reset

\* C1: for every reply stream of k >= 0 !re sentences followed by one !done,
\* query yields exactly the k records of the !re sentences, in order, and
\* then ends without raising.
C1_YieldsEveryRecord ==
    \A q \in Calls :
        (EndedOwnReply(q) /\ ReThenDone(task[q].reply))
            => /\ task[q].ret.kind = "ok"
               /\ task[q].yielded = RecordsBeforeLast(task[q].reply)

\* C2: a query never gets past a !trap sentence, and when it ends on a !trap
\* that is not suppressed (optional is false, or the message is not the
\* sentinel) it raises an error carrying the queried path and the trap
\* record with its message; only the sentinel message is ever suppressed.
C2_TrapRaises ==
    \A q \in Calls :
        AtSentence(q) =>
            /\ \A i \in 1..(task[q].idx - 1) : Tag(task[q].sentences[i]) # ERROR_TAG
            /\ (/\ task[q].pc = "done"
                /\ Tag(Current(q)) = ERROR_TAG
                /\ ~(task[q].optional /\ IsSentinelTrap(Current(q))))
                   => /\ task[q].ret.kind = "Exception"
                      /\ task[q].ret.path = task[q].path
                      /\ task[q].ret.obj = parse_sentence(Current(q)).obj
                      /\ DictHas(task[q].ret.obj, MESSAGE_KEY)

\* A query with optional=true has raised on a trap whose message is not the
\* sentinel.
C2_Witness ==
    \E q \in Calls :
        /\ AtSentence(q)
        /\ task[q].pc = "done"
        /\ task[q].optional
        /\ Tag(Current(q)) = ERROR_TAG
        /\ ~IsSentinelTrap(Current(q))
        /\ task[q].ret.kind = "Exception"
        /\ task[q].ret.path \in Paths

\* C3: with optional=true, a query that decodes a !trap whose message is "no
\* such command prefix" ends there without an error, having yielded nothing
\* but the records of the sentences before the trap.
C3_SentinelTrapEndsSilently ==
    \A q \in Calls :
        (/\ AtSentence(q)
         /\ task[q].pc = "done"
         /\ task[q].optional
         /\ IsSentinelTrap(Current(q)))
            => /\ task[q].ret.kind = "ok"
               /\ Len(task[q].yielded) = task[q].idx - 1

\* A query with optional=true has ended on the sentinel trap.
C3_Witness ==
    \E q \in Calls :
        /\ AtSentence(q)
        /\ task[q].pc = "done"
        /\ task[q].optional
        /\ IsSentinelTrap(Current(q))
        /\ task[q].yielded = <<>>

\* C4: a reply that contains a !fatal sentence makes query fail, for either
\* value of optional: the !fatal sentence is never yielded as a record and
\* the call never ends as a success (stated for a query that was the only
\* command outstanding on its transport).
C4_FatalRaises ==
    \A q \in Calls :
        (task[q].op = "query" /\ task[q].clean) =>
            /\ \A i \in 1..Len(task[q].sentences) :
                    (i < task[q].idx) => Tag(task[q].sentences[i]) # FATAL_ERROR_TAG
            /\ (/\ task[q].pc = "done"
                /\ \E i \in 1..Len(task[q].sentences) :
                       Tag(task[q].sentences[i]) = FATAL_ERROR_TAG)
                   => task[q].ret.kind # "ok"

\* The text of the message attribute of the first complete !trap or !fatal
\* sentence of the chunk, <<-1>> when the chunk holds none.
ChunkMessage(data) ==
    LET ss == Unpack(data).sentences
        hits == {i \in 1..Len(ss) :
                    /\ Tag(ss[i]) \in {ERROR_TAG, FATAL_ERROR_TAG}
                    /\ DictHas(parse_sentence(ss[i]).obj, MESSAGE_KEY)}
    IN IF hits = {} THEN <<-1>>
       ELSE DictGet(parse_sentence(ss[CHOOSE i \in hits : \A j \in hits : i <= j]).obj,
                    MESSAGE_KEY)

\* Connect call q has ended after login() read a chunk.
LoginEnded(q) ==
    task[q].op = "connect" /\ task[q].pc = "done" /\ task[q].rd # Unset

\* C5: whenever the login response chunk contains the tag !trap or !fatal,
\* connect fails with LoginFailed, and with no other kind of error, and the
\* message of LoginFailed is the text of the chunk's message attribute.
C5_LoginTagRaisesLoginFailed ==
    \A q \in Calls :
        (/\ LoginEnded(q)
         /\ Contains(task[q].res, ERROR_TAG) \/ Contains(task[q].res, FATAL_ERROR_TAG))
            => /\ task[q].ret.kind = "LoginFailed"
               /\ ChunkMessage(task[q].res) # <<-1>>
                      => task[q].ret.msg = ChunkMessage(task[q].res)

\* C6: connect fails with LoginFailed when the peer resets or closes the
\* transport during the login read, and it completes (the session becomes
\* Authenticated) only on a chunk that was received and holds neither tag.
C6_LoginNeedsCleanChunk ==
    \A q \in Calls :
        LoginEnded(q) =>
            /\ (tr[task[q].rd].reset \/ (tr[task[q].rd].eof /\ task[q].res = <<>>))
                   => task[q].ret.kind = "LoginFailed"
            /\ task[q].ret.kind = "ok"
                   => /\ task[q].res # <<>>
                      /\ ~Contains(task[q].res, ERROR_TAG)
                      /\ ~Contains(task[q].res, FATAL_ERROR_TAG)

\* C7: connect on a session that is Authenticated is a no-op: no transport is
\* opened, no login sentence is written, reader, writer and the session
\* state stay as they are (stated for a session whose login reply was read
\* in full).
C7_ConnectIdempotent ==
    [][\A q \in Calls :
          (/\ state = "Authenticated"
           /\ ~Outstanding(writer)
           /\ task[q].pc = "idle"
           /\ task'[q].op = "connect")
             => /\ nconn' = nconn
                /\ reader' = reader
                /\ writer' = writer
                /\ tr' = tr
                /\ state' = state]_vars

\* C8: close never raises, neither when called (on a session never
\* connected, connected, or already closed) nor from __del__.
C8_CloseNeverRaises ==
    /\ \A q \in Calls :
          (task[q].op = "close" /\ task[q].pc = "done") => task[q].ret.kind = "ok"
    /\ finalized \in {"no", "ok"}

\* C9: once connect has returned, no call of query or login_client writes
\* its command sentence to a transport on which a reply is still outstanding
\* (a command not yet answered, or reply bytes not yet read), also when the
\* calls already under way each wrote to a transport with nothing
\* outstanding.
C9_OneOutstandingCommand ==
    [][\A q \in Calls, t \in Conns :
          (/\ \A p \in Calls : task[p].pc # "login_read"
           /\ \A p \in Calls : Running(p) => task[p].clean
           /\ task[q].pc = "idle"
           /\ task'[q].op \in {"query", "login_client"}
           /\ Len(tr'[t].out) > Len(tr[t].out))
             => ~Outstanding(t)]_vars

\* C10: query writes its command sentence only on a session that is
\* Authenticated: never connected, or with its last login failed, it sends
\* nothing (stated for writes made with no reply outstanding).
C10_QueryNeedsAuthenticated ==
    [][\A q \in Calls :
          (/\ task[q].pc = "idle"
           /\ task'[q].op = "query"
           /\ tr' # tr
           /\ writer # Unset
           /\ ~Outstanding(writer))
             => state = "Authenticated"]_vars

\* The bytes talk_word writes for each word of the sentence, in order.
WordsWritten(words) == talk_words(words)

\* C11: the bytes talk_sentence writes are the bytes of each word in order
\* (prefix, then payload) followed by exactly one zero byte, and no word of
\* the sentence is written as the zero-length terminator word.
C11_OneTerminator ==
    (probe.op = "talk_sentence" /\ probe.done)
        => /\ probe.out = WordsWritten(probe.arg) \o <<0>>
           /\ \A i \in 1..Len(probe.arg) : talk_word(probe.arg[i], FALSE) # <<0>>

\* The value of a length prefix read as the little-endian number the code
\* writes.
LittleEndian(bytes) ==
    IF Len(bytes) = 1 THEN bytes[1]
    ELSE IF Len(bytes) = 2 THEN bytes[1] + 256 * bytes[2]
    ELSE bytes[1] + 256 * bytes[2] + 65536 * bytes[3]

\* C12: for every word sent with talk_word, the value carried by the length
\* prefix equals the number of UTF-8 bytes of the payload written after it.
C12_PrefixCountsPayloadBytes ==
    (probe.op = "talk_word" /\ probe.done)
        => LET payload == Encode(probe.arg)
               prefix == to_bytes(probe.arg)
           IN /\ Take(probe.out, Len(prefix) + Len(payload)) = prefix \o payload
              /\ LittleEndian(prefix) = Len(payload)

IsProperPrefix(a, b) == Len(a) < Len(b) /\ SubSeq(b, 1, Len(a)) = a

\* C13: for lengths n # m, the prefix bytes of n differ from those of m and
\* are not a proper prefix of them.
C13_PrefixUnambiguous ==
    (probe.op = "to_bytes" /\ probe.done)
        => \A m \in 0..MaxLength :
              m # Len(probe.arg)
                  => /\ probe.out # to_bytes(Repeat(m))
                     /\ ~IsProperPrefix(probe.out, to_bytes(Repeat(m)))

\* The width of the prefix of length n in the documented scheme.
DocumentedWidth(n) ==
    IF n < 128 THEN 1
    ELSE IF n < 16384 THEN 2
    ELSE IF n < 2097152 THEN 3
    ELSE IF n < 268435456 THEN 4
    ELSE 5

\* C14: the prefix of length n has the width of the documented scheme, and
\* for a width above 1 the high bits of its first byte mark that width.
C14_PrefixWidthAndMarker ==
    (probe.op = "to_bytes" /\ probe.done)
        => LET w == DocumentedWidth(Len(probe.arg))
               b == probe.out[1]
           IN /\ Len(probe.out) = w
              /\ w = 1 => b < 128
              /\ w = 2 => b >= 128 /\ b < 192
              /\ w = 3 => b >= 192 /\ b < 224
              /\ w = 4 => b >= 224 /\ b < 240
              /\ w = 5 => b = 240

\* Whether the bytes hold a complete sentence whose tag is one of `tags`.
HasSentence(data, tags) ==
    \E i \in 1..Len(Unpack(data).sentences) : Tag(Unpack(data).sentences[i]) \in tags

\* Whether the connection of transport t is still open in both directions.
Open(t) == t # Unset /\ ~tr[t].closed /\ ~tr[t].eof /\ ~tr[t].reset

\* Query q wrote its command with nothing outstanding, and the router has
\* sent its reply.
OwnReplySent(q) == task[q].op = "query" /\ task[q].clean /\ task[q].answered

\* C15: on an open transport read() has returned exactly when the bytes it
\* accumulated hold a complete !done sentence: not later (however the reply
\* is split into chunks), and not earlier on a chunk that holds the bytes
\* !done inside an attribute value.
C15_ReadStopsOnDoneSentence ==
    \A q \in Calls :
        (OwnReplySent(q) /\ Open(task[q].rd))
            => /\ task[q].pc = "read" => ~HasSentence(task[q].res, {DONE_TAG})
               /\ task[q].pc \in {"iter", "done"} => HasSentence(task[q].res, {DONE_TAG})

\* C16: a query whose reply has been sent (ended by !done, by !trap alone
\* or by !fatal alone) is never left awaiting reader.read on an open
\* transport on which no byte is in flight: the router has answered and
\* sends nothing more, so that read would wait for ever.
C16_QueryEndsAfterTerminal ==
    \A q \in Calls :
        (OwnReplySent(q) /\ Open(task[q].rd) /\ task[q].pc = "read")
            => tr[task[q].rd].wire # <<>>

\* C17: a query whose transport was closed by the peer before a terminal
\* sentence of its reply was received does not end as a success.
C17_ClosedBeforeTerminalFails ==
    \A q \in Calls :
        (/\ task[q].op = "query"
         /\ task[q].clean
         /\ task[q].pc = "done"
         /\ task[q].rd # Unset
         /\ tr[task[q].rd].eof
         /\ ~HasSentence(task[q].res, {DONE_TAG, ERROR_TAG, FATAL_ERROR_TAG}))
            => task[q].ret.kind # "ok"

\* C18: when a query is made after a query that failed with a trap error
\* (itself made with nothing outstanding), no bytes of the failed query's
\* reply are left on the transport to be read as part of the next reply.
C18_UsableAfterTrap ==
    [][\A q, p \in Calls :
          (/\ task[p].op = "query"
           /\ task[p].pc = "done"
           /\ task[p].clean
           /\ task[p].ret.kind = "Exception"
           /\ task[p].rd = writer
           /\ Open(writer)
           /\ task[q].pc = "idle"
           /\ task'[q].op = "query")
             => ~Outstanding(writer)]_vars

\* The index of the first !done sentence, 0 when there is none.
FirstDone(sentences) ==
    LET hits == {i \in 1..Len(sentences) : Tag(sentences[i]) = DONE_TAG}
    IN IF hits = {} THEN 0 ELSE CHOOSE i \in hits : \A j \in hits : i <= j

\* C19: query's loop never goes past the first !done sentence of the bytes
\* read; having reached it the query ends successfully, with the records of
\* the sentences before it yielded and the record of the !done sentence not.
C19_DoneEndsSequence ==
    \A q \in Calls :
        (task[q].op = "query" /\ FirstDone(task[q].sentences) # 0)
            => LET d == FirstDone(task[q].sentences)
               IN /\ task[q].idx <= d
                  /\ Len(task[q].yielded) < d
                  /\ (task[q].pc = "done" /\ task[q].idx = d)
                         => /\ task[q].ret.kind = "ok"
                            /\ task[q].yielded =
                                   [i \in 1..(d - 1) |->
                                       parse_sentence(task[q].sentences[i]).obj]

\* A query has ended on a !done sentence that carries a record, after
\* yielding a record.
C19_Witness ==
    \E q \in Calls :
        /\ task[q].op = "query"
        /\ task[q].pc = "done"
        /\ task[q].ret.kind = "ok"
        /\ task[q].idx = FirstDone(task[q].sentences)
        /\ task[q].idx > 1
        /\ parse_sentence(task[q].sentences[task[q].idx]).obj # <<>>

\* A query has ended on a !done sentence that other sentences follow.
C19_TrailingReached ==
    \E q \in Calls :
        /\ task[q].op = "query"
        /\ task[q].pc = "done"
        /\ FirstDone(task[q].sentences) # 0
        /\ FirstDone(task[q].sentences) < Len(task[q].sentences)

\* C20: a query yields only after read() has returned, and once it has
\* yielded a record no byte of its reply is left unread on the transport.
C20_ReadsBeforeFirstYield ==
    \A q \in Calls :
        (OwnReplySent(q) /\ task[q].yielded # <<>> /\ Open(task[q].rd))
            => /\ task[q].pc \in {"iter", "done"}
               /\ tr[task[q].rd].wire = <<>>
====
